---- MODULE Spec2Model ----
(***************************************************************************)
(* Gittron: synchronisation of GitHub pull-request review comments.        *)
(*                                                                         *)
(* The model covers GitHubService (fetchAllPages, getDisplayableCommentIds,*)
(* getPullRequestComments), the fetch cycle refreshComments of the         *)
(* extension and CommentsProvider.refresh / setPRInfo.  Every await of the *)
(* TypeScript code is one position of pc; an action is the synchronous     *)
(* code that runs from one await to the next.                              *)
(*                                                                         *)
(* Fields of a comment that no modelled branch reads (body, user, line,    *)
(* position, html_url) are left out.  createdAt is the integer value of    *)
(* new Date(created_at).getTime().  A thread id is a positive integer and  *)
(* 0 stands for an undefined threadId; the empty string stands for an      *)
(* absent path.                                                            *)
(***************************************************************************)
EXTENDS Integers, Sequences, FiniteSets, TLC

\* ---------------------------------------------------------------- bounds
MaxComments == 3
MaxPR == 2
\* most review comments the remote holds when MutateSpec starts; replies
\* add to them up to MaxComments
MaxStored == 2
\* longest text typed into an input box
MaxText == 2
\* longest listing handed to the pipeline of BuildSpec
MaxListing == 5
\* longest listing handed to the pipeline of LongSpec
MaxLong == 8

\* ------------------------------------------------- constants of the code
\* reviewThreads(first: 100), scaled down to 3
ThreadsFirst == 3
\* comments(first: 100), scaled down to 3
CommentsFirst == 3
\* per_page=100 of fetchAllPages, scaled down to 2
PerPage == 2
NoPR == 0
NoThread == 0
NoPath == ""
NoUrl == 0
NoComment == 0

VARIABLES
  remoteComments,   \* remote: review comments of DataPR in REST listing order
  threadResolved,   \* remote: isResolved of every review thread
  token,            \* configuration gittron.githubToken is set
  currentPRInfo,    \* extension.ts: let currentPRInfo
  comments,         \* CommentsProvider.comments
  prInfo,           \* CommentsProvider.prInfo
  treeItems,        \* CommentsProvider.treeItems
  parentMap,        \* CommentsProvider.parentMap, as <<child id, parent id>> pairs
  pc,               \* await at which the running command is suspended
  branchForce,      \* refreshComments runs its (!currentPRInfo || forceNewPR) branch
  candidates,       \* getCurrentPullRequest: const prs
  fetchPR,          \* getPullRequestComments: pullNumber
  tokenAtCall,      \* the credential was configured when fetch was called
  displayableCommentIds, \* getPullRequestComments: const displayableCommentIds
  commentToThreadMap,    \* getPullRequestComments: const commentToThreadMap
  metaNodes,        \* review-thread nodes answered to the step-1 query
  allItems,         \* fetchAllPages: let allItems
  currentUrl,       \* fetchAllPages: let currentUrl (page number, 0 = null)
  netLog,           \* requests issued by the running fetch, in order
  fault,            \* a request of the running fetch has failed
  pageFault,        \* a page request of the running fetch has failed
  fetchResult,      \* outcome of the last getPullRequestComments call
  activeComment,    \* extension.ts: let activeComment (id of the comment, 0 = undefined)
  mutation,         \* the running or last call of resolveCommentThread / replyToComment
  fired,            \* calls of _onDidChangeTreeData.fire() made by the last step
  gitService,       \* the GitService source that the extension is built with
  workspace,        \* the git repository of the workspace folder
  cycle,            \* the running or last refreshComments: what it located, resolved and showed
  loadedPR,         \* pullNumber of the fetch whose result CommentsProvider.comments holds
  overlap           \* a second refreshComments, called while the first is suspended

vars == <<remoteComments, threadResolved, token, currentPRInfo, comments,
          prInfo, treeItems, parentMap, pc, branchForce, candidates, fetchPR, tokenAtCall,
          displayableCommentIds, commentToThreadMap, metaNodes, allItems,
          currentUrl, netLog, fault, pageFault, fetchResult, activeComment, mutation, fired,
          gitService, workspace, cycle, loadedPR, overlap>>

remoteVars == <<remoteComments, threadResolved>>

providerVars == <<comments, prInfo, treeItems, parentMap, loadedPR>>

mutationVars == <<activeComment, mutation>>

envVars == <<gitService, workspace>>

\* ------------------------------------------------------------ utilities
Range(s) == {s[i] : i \in 1..Len(s)}

Min2(a, b) == IF a < b THEN a ELSE b

Take(s, n) == SubSeq(s, 1, Min2(n, Len(s)))

RECURSIVE Concat(_)
Concat(ss) == IF ss = <<>> THEN <<>> ELSE Head(ss) \o Concat(Tail(ss))

\* --------------------------------------------------------------- remote
\* A review comment as the remote holds it.
Shapes == {[path |-> "a.ts", outdated |-> FALSE],
           [path |-> "a.ts", outdated |-> TRUE],
           [path |-> NoPath, outdated |-> FALSE]}

RemoteComment(i, t, sh, at) ==
  [id |-> i, thread |-> t, path |-> sh.path, outdated |-> sh.outdated,
   createdAt |-> at]

\* ids are assigned in listing order; a thread is numbered when its first
\* comment is created
ThreadNumbering(th) ==
  /\ Len(th) > 0 => th[1] = 1
  /\ \A i \in 2..Len(th) : \E j \in 1..(i - 1) : th[i] <= th[j] + 1

\* the listing is in ascending order of id and ids are assigned at creation:
\* a comment is created with the comment listed before it or after it
Chronological(at) ==
  /\ Len(at) > 0 => at[1] = 1
  /\ \A i \in 1..(Len(at) - 1) : at[i + 1] \in {at[i], at[i] + 1}

\* the remote holds a listing of at most max review comments of the given
\* shapes
RemoteListing(max, shapes) ==
  \E n \in 0..max :
    \E th \in {x \in [1..n -> 1..n] : ThreadNumbering(x)},
       sh \in [1..n -> shapes],
       at \in {x \in [1..n -> 1..n] : Chronological(x)} :
      remoteComments = [i \in 1..n |-> RemoteComment(i, th[i], sh[i], at[i])]

ThreadsOf(listing) == {listing[i].thread : i \in 1..Len(listing)}

PRNumbers == 1..MaxPR

\* the review comments of the remote belong to the first pull request; the
\* other pull requests have none
DataPR == CHOOSE n \in PRNumbers : \A m \in PRNumbers : n <= m

\* review comments of pull request pr, in the order REST lists them
RemoteReviewComments(pr) == IF pr = DataPR THEN remoteComments ELSE <<>>

\* ---------------------------------------------------------- credential
NeverMissing(tok) == FALSE

\* if (!token) throw new Error('GitHub token not set.')
MissingToken(tok) == ~tok

\* ------------------------------------------------- GraphQL review threads
SetMin(S) == CHOOSE x \in S : \A y \in S : x <= y

RECURSIVE Ascending(_)
Ascending(S) ==
  IF S = {} THEN <<>> ELSE <<SetMin(S)>> \o Ascending(S \ {SetMin(S)})

CommentNode(c) == [databaseId |-> c.id, path |-> c.path, outdated |-> c.outdated]

ThreadNode(pr, t) ==
  LET mine == SelectSeq(RemoteReviewComments(pr), LAMBDA c : c.thread = t)
  IN  [id |-> t,
       isResolved |-> threadResolved[t],
       comments |-> Take([i \in 1..Len(mine) |-> CommentNode(mine[i])], CommentsFirst)]

\* reviewThreads(first: 100) { nodes { id isResolved comments(first: 100) } }
ReviewThreadNodes(pr) ==
  LET ts == Take(Ascending(ThreadsOf(RemoteReviewComments(pr))), ThreadsFirst)
  IN  [i \in 1..Len(ts) |-> ThreadNode(pr, ts[i])]

DisplayableOfAnyPath(nodes) ==
  {c.databaseId : c \in
     UNION {{n \in Range(nodes[i].comments) :
               /\ n.databaseId # 0
               /\ ~n.outdated
               /\ ~nodes[i].isResolved} : i \in 1..Len(nodes)}}

\* the loop of getDisplayableCommentIds over the answered nodes
DisplayableOf(nodes) ==
  {c.databaseId : c \in
     UNION {{n \in Range(nodes[i].comments) :
               /\ n.databaseId # 0
               /\ n.path # NoPath
               /\ ~n.outdated
               /\ ~nodes[i].isResolved} : i \in 1..Len(nodes)}}

\* the loop of getPullRequestComments that fills commentToThreadMap;
\* the map is a set of <<comment id, thread id>> pairs
ThreadMapOf(nodes) ==
  UNION {{<<n.databaseId, nodes[i].id>> :
            n \in {m \in Range(nodes[i].comments) : m.databaseId # 0}} :
         i \in 1..Len(nodes)}

\* commentToThreadMap.get(id); a later set() of the same key wins
MapGet(map, id) ==
  IF \E e \in map : e[1] = id
  THEN CHOOSE t \in {e[2] : e \in {x \in map : x[1] = id}} :
         \A u \in {e[2] : e \in {x \in map : x[1] = id}} : u <= t
  ELSE NoThread

NeverShortCircuit(ids) == FALSE

\* if (displayableCommentIds.size === 0) return []
ShortCircuit(ids) == ids = {}

\* --------------------------------------------------------- REST listing
PageCount(pr) ==
  LET n == Len(RemoteReviewComments(pr))
  IN  IF n = 0 THEN 1 ELSE (n + PerPage - 1) \div PerPage

\* what the REST listing tells of a review comment
RestItem(c) == [id |-> c.id, path |-> c.path, createdAt |-> c.createdAt]

PageItems(pr, p) ==
  LET l == RemoteReviewComments(pr)
      part == SubSeq(l, (p - 1) * PerPage + 1, Min2(p * PerPage, Len(l)))
  IN  [i \in 1..Len(part) |-> RestItem(part[i])]

\* the rel="next" target of the Link header of page p, NoUrl when absent
NextLink(pr, p) == IF p < PageCount(pr) THEN p + 1 ELSE NoUrl

PushItemsOverwrite(all, items) == items

\* allItems.push(...items)
PushItems(all, items) == all \o items

\* currentUrl = nextMatch ? nextMatch[1] : null
FollowLink(link) == link

\* ---------------------------------------- getPullRequestComments, step 3-5
\* reviewComments.filter(same thread).sort(by created_at)[0]: the sort is
\* stable, so element 0 is the earliest-listed comment of least created_at
FirstOfThread(reviewComments, map, threadId) ==
  LET idx == {i \in 1..Len(reviewComments) :
                MapGet(map, reviewComments[i].id) = threadId}
      least == {i \in idx : \A j \in idx :
                  reviewComments[i].createdAt <= reviewComments[j].createdAt}
  IN  IF idx = {} THEN 0 ELSE reviewComments[SetMin(least)].id

IsFirstComment(comment, reviewComments, map) ==
  LET threadId == MapGet(map, comment.id)
  IN  IF threadId # NoThread
      THEN FirstOfThread(reviewComments, map, threadId) = comment.id
      ELSE FALSE

ToComment(comment, reviewComments, map) ==
  [id |-> comment.id,
   path |-> comment.path,
   createdAt |-> comment.createdAt,
   resolved |-> FALSE,
   threadId |-> MapGet(map, comment.id),
   isFirstComment |-> IsFirstComment(comment, reviewComments, map)]

KeepAll(reviewComments, ids) == reviewComments

\* reviewComments.filter(comment => displayableCommentIds.has(comment.id))
KeepDisplayable(reviewComments, ids) ==
  SelectSeq(reviewComments, LAMBDA c : c.id \in ids)

BuildComments(reviewComments, ids, map) ==
  LET kept == KeepDisplayable(reviewComments, ids)
  IN  [i \in 1..Len(kept) |-> ToComment(kept[i], reviewComments, map)]

\* ------------------------------------------- CommentsProvider.refresh sort
\* comments.find(c => c.threadId === threadId && c.isFirstComment):
\* index of the first match in cs, 0 when there is none
FindFirstComment(cs, threadId) ==
  LET hits == {i \in 1..Len(cs) : cs[i].threadId = threadId /\ cs[i].isFirstComment}
  IN  IF hits = {} THEN 0 ELSE SetMin(hits)

\* the comparator handed to comments.sort; cs is the array being sorted
Compare(a, b, cs) ==
  LET aHasFile == IF a.path # NoPath THEN 1 ELSE 0
      bHasFile == IF b.path # NoPath THEN 1 ELSE 0
      aFirst == FindFirstComment(cs, a.threadId)
      bFirst == FindFirstComment(cs, b.threadId)
  IN  IF aHasFile # bHasFile THEN bHasFile - aHasFile
      ELSE IF a.threadId # b.threadId /\ aFirst # 0 /\ bFirst # 0
           THEN cs[bFirst].createdAt - cs[aFirst].createdAt
           ELSE a.createdAt - b.createdAt

\* Array.prototype.sort of V8 for an array shorter than its minimum run
\* length: the leading run is found (and reversed when it descends), then
\* the remaining elements are placed by binary insertion.
RECURSIVE RunLength(_, _, _, _)
RunLength(w, cs, idx, descending) ==
  IF idx > Len(w) THEN idx - 1
  ELSE LET order == Compare(w[idx], w[idx - 1], cs)
       IN  IF descending
           THEN IF order >= 0 THEN idx - 1 ELSE RunLength(w, cs, idx + 1, descending)
           ELSE IF order < 0 THEN idx - 1 ELSE RunLength(w, cs, idx + 1, descending)

Reverse(s) == [i \in 1..Len(s) |-> s[Len(s) + 1 - i]]

RECURSIVE BinarySearch(_, _, _, _, _)
BinarySearch(w, cs, pivot, left, right) ==
  IF left >= right THEN left
  ELSE LET mid == left + ((right - left) \div 2)
       IN  IF Compare(pivot, w[mid], cs) < 0
           THEN BinarySearch(w, cs, pivot, left, mid)
           ELSE BinarySearch(w, cs, pivot, mid + 1, right)

RECURSIVE BinaryInsertionSort(_, _, _)
BinaryInsertionSort(w, cs, start) ==
  IF start > Len(w) THEN w
  ELSE LET pivot == w[start]
           at == BinarySearch(w, cs, pivot, 1, start)
           placed == SubSeq(w, 1, at - 1) \o <<pivot>> \o SubSeq(w, at, start - 1)
                       \o SubSeq(w, start + 1, Len(w))
       IN  BinaryInsertionSort(placed, cs, start + 1)

SortComments(cs) ==
  IF Len(cs) < 2 THEN cs
  ELSE LET descending == Compare(cs[2], cs[1], cs) < 0
           run == RunLength(cs, cs, 3, descending)
           w == IF descending
                THEN Reverse(SubSeq(cs, 1, run)) \o SubSeq(cs, run + 1, Len(cs))
                ELSE cs
       IN  BinaryInsertionSort(w, cs, run + 1)

\* -------------------------------------------- CommentsProvider.getChildren
HeaderId == -1

\* new CommentItem(comment, state, isThreadHeader): the fields that the
\* provider reads back
CommentItem(comment, isThreadHeader) ==
  [id |-> comment.id,
   threadId |-> comment.threadId,
   contextValue |-> IF isThreadHeader THEN "prThreadHeader" ELSE "prComment"]

HeaderItem == [id |-> HeaderId, threadId |-> NoThread, contextValue |-> "prHeader"]

\* the keys of threadMap in insertion order
RECURSIVE ThreadKeys(_, _)
ThreadKeys(cs, seen) ==
  IF cs = <<>> THEN <<>>
  ELSE IF Head(cs).threadId = NoThread \/ Head(cs).threadId \in seen
       THEN ThreadKeys(Tail(cs), seen)
       ELSE <<Head(cs).threadId>> \o ThreadKeys(Tail(cs), seen \cup {Head(cs).threadId})

\* the item of one entry of threadMap, none when no member is marked first
ThreadItems(cs, threadId) ==
  LET members == SelectSeq(cs, LAMBDA c : c.threadId = threadId)
      firsts == SelectSeq(members, LAMBDA c : c.isFirstComment)
  IN  IF firsts = <<>> THEN <<>>
      ELSE <<CommentItem(firsts[1], Len(members) # 1)>>

\* getChildren() without element, for the collection cs and the PR info pr
GetChildren(cs, pr) ==
  LET keys == ThreadKeys(cs, {})
      standalone == SelectSeq(cs, LAMBDA c : c.threadId = NoThread)
  IN  (IF pr # NoPR /\ Len(cs) > 0 THEN <<HeaderItem>> ELSE <<>>)
        \o Concat([i \in 1..Len(keys) |-> ThreadItems(cs, keys[i])])
        \o [i \in 1..Len(standalone) |-> CommentItem(standalone[i], FALSE)]

\* the parent relationships that the callback of refresh rebuilds
ParentMapOf(items, cs) ==
  {<<q[1].id, q[2].id>> :
     q \in {p \in Range(cs) \X Range(items) :
              /\ p[2].contextValue = "prThreadHeader"
              /\ p[2].threadId # NoThread
              /\ p[1].threadId = p[2].threadId
              /\ ~p[1].isFirstComment
              /\ \E ti \in Range(items) : ti.id = p[1].id}}

\* ------------------------------------------------------------ GitService
\* src/services/git.ts runs git through simple-git; the GitService of the
\* later source reads the API of the vscode.git extension
GitServices == {"simple-git", "git-api"}

\* HEAD points to a commit, not to a branch
Detached == [named |-> FALSE, prs |-> {}]

\* HEAD: detached, or a branch, which the model tells apart by the open
\* pull requests whose head it is
Heads == {Detached} \cup {[named |-> TRUE, prs |-> S] : S \in SUBSET PRNumbers}

\* the fetch URL of a remote, in its parts
Urls == [scheme : {"https://", "git@", "http://"},
         host : {"github.com", "gitlab.com"},
         owner : {"", "o"},
         name : {"", "r", "r.s"},
         suffix : {"", ".git", "/"}]

GoodUrl == [scheme |-> "https://", host |-> "github.com", owner |-> "o", name |-> "r",
            suffix |-> ".git"]

BadUrl == [GoodUrl EXCEPT !.host = "gitlab.com"]

\* the names with a dot
Dotted == {"r.s"}

\* parseGitHubUrl: the match of the regular expression of the scheme
parseGitHubUrl(url) ==
  [match |-> /\ url.scheme \in {"https://", "git@"}
             /\ url.host = "github.com"
             /\ url.owner # ""
             /\ url.name # ""
             /\ url.name \notin Dotted
             /\ url.suffix \in {"", ".git"},
   owner |-> url.owner,
   name |-> url.name]

Failed(err) == [err |-> err, owner |-> "", name |-> "", branch |-> Detached]

\* revparse(['--abbrev-ref', 'HEAD']) of git.ts answers the name HEAD for a
\* detached head; repository.state.HEAD?.name of the later source is
\* undefined for it
BranchOf(service, head) ==
  IF service = "git-api" /\ ~head.named
  THEN [found |-> FALSE, branch |-> Detached]
  ELSE [found |-> TRUE, branch |-> head]

\* GitService.getRepositoryInfo
getRepositoryInfo(service, ws) ==
  IF ~ws.repository THEN Failed("NoRepository")
  ELSE IF ~ws.origin THEN Failed("NoRemote")
  ELSE IF ~parseGitHubUrl(ws.url).match THEN Failed("UnparsableRemoteUrl")
  ELSE IF ~BranchOf(service, ws.head).found THEN Failed("NoBranch")
  ELSE [err |-> "none",
        owner |-> parseGitHubUrl(ws.url).owner,
        name |-> parseGitHubUrl(ws.url).name,
        branch |-> BranchOf(service, ws.head).branch]

\* the answer to pulls?head=owner:branch&state=open; no open pull request
\* has the head HEAD
OpenPullRequests(branch) == branch.prs

NeverNone(prs) == FALSE

\* if (prs.length === 0) throw
NoneFound(prs) == prs = {}

\* no refreshComments has run
NoCycle ==
  [located |-> Failed("notcalled"), answered |-> FALSE, matches |-> {},
   resolved |-> "none", number |-> NoPR, manual |-> FALSE, shown |-> {}]

\* the workspaces of the cycles
CycleWorkspaces ==
  [repository : BOOLEAN, origin : BOOLEAN, url : {GoodUrl, BadUrl}, head : Heads]

\* the workspace in which the stored pull request was resolved
StoredWorkspace ==
  [repository |-> TRUE, origin |-> TRUE, url |-> GoodUrl,
   head |-> [named |-> TRUE, prs |-> {DataPR}]]

\* ------------------------------------------------------------ state space

GraphQLOutcomes == {"ok", "neterr", "gqlerr", "autherr"}

RestOutcomes == {"ok", "neterr", "httperr"}

\* validateInput returns null: the input box shows no message
NoMessage == ""

\* no mutation has been called by the running command
NoMutation ==
  [kind |-> "none", hover |-> FALSE, commentId |-> NoComment, threadId |-> NoThread,
   log |-> <<>>, fault |-> "none", tokenAtCall |-> FALSE, outcome |-> "none",
   input |-> <<>>, validation |-> NoMessage, body |-> <<>>]

\* no second refreshComments runs
NoOverlap == [pc |-> "idle", force |-> FALSE, prNumber |-> NoPR, result |-> "none"]

fetchLocals == <<fetchPR, tokenAtCall, displayableCommentIds, commentToThreadMap,
                 metaNodes, allItems, currentUrl, netLog, fault, pageFault>>

Init ==
  /\ RemoteListing(MaxStored, {sh \in Shapes : sh.path # NoPath})
  /\ threadResolved = [t \in 1..MaxComments |-> FALSE]
  /\ token \in BOOLEAN
  /\ currentPRInfo = NoPR
  /\ comments = <<>>
  /\ prInfo = NoPR
  /\ treeItems = <<>>
  /\ parentMap = {}
  /\ pc = "idle"
  /\ branchForce = FALSE
  /\ candidates = {}
  /\ fetchPR = NoPR
  /\ tokenAtCall = FALSE
  /\ displayableCommentIds = {}
  /\ commentToThreadMap = {}
  /\ metaNodes = <<>>
  /\ allItems = <<>>
  /\ currentUrl = NoUrl
  /\ netLog = <<>>
  /\ fault = FALSE
  /\ pageFault = FALSE
  /\ fetchResult = [status |-> "none", err |-> "none", comments |-> <<>>]
  /\ activeComment = NoComment
  /\ mutation = NoMutation
  /\ fired = 0
  /\ gitService \in GitServices
  /\ workspace \in CycleWorkspaces
  /\ cycle = NoCycle
  /\ loadedPR = NoPR
  /\ overlap = NoOverlap

\* ------------------------------------------------ getPullRequestComments
SilentRefresh == fired' = 0

\* this._onDidChangeTreeData.fire() of refresh and of clear
Fire == fired' = 1

\* the step calls neither refresh nor clear
Quiet == fired' = 0

\* the running code suspends at the await named next
Await(next) ==
  /\ pc' = next
  /\ Quiet
  /\ UNCHANGED <<branchForce, providerVars>>

\* the promise of getPullRequestComments rejects: the catch of
\* refreshComments shows the error and the provider is not touched
Throws(err) ==
  /\ fetchResult' = [status |-> "error", err |-> err, comments |-> <<>>]
  /\ pc' = "idle"
  /\ branchForce' = FALSE
  /\ Quiet
  /\ UNCHANGED providerVars

\* CommentsProvider.setPRInfo as refreshComments calls it after refresh
SetPRInfo ==
  prInfo' = IF branchForce THEN fetchPR
            ELSE IF currentPRInfo # NoPR THEN currentPRInfo ELSE prInfo

\* the promise of getPullRequestComments resolves with cs: refreshComments
\* hands cs to CommentsProvider.refresh and then sets the PR info
ReturnsFor(pr, cs) ==
  /\ fetchResult' = [status |-> "ok", err |-> "none", comments |-> cs]
  /\ comments' = SortComments(cs)
  /\ loadedPR' = pr
  /\ Fire
  /\ treeItems' = GetChildren(comments', prInfo)
  /\ parentMap' = ParentMapOf(treeItems', comments')
  /\ SetPRInfo
  /\ pc' = "idle"
  /\ branchForce' = FALSE

Returns(cs) == ReturnsFor(fetchPR, cs)

\* getPullRequestComments(owner, repo, pr) up to its first await
Call(pr) ==
  /\ fetchPR' = pr
  /\ tokenAtCall' = token
  /\ displayableCommentIds' = {}
  /\ commentToThreadMap' = {}
  /\ metaNodes' = <<>>
  /\ allItems' = <<>>
  /\ currentUrl' = NoUrl
  /\ fault' = FALSE
  /\ pageFault' = FALSE
  /\ IF MissingToken(token)
     THEN /\ netLog' = <<>>
          /\ Throws("MissingCredential")
     ELSE /\ netLog' = <<"meta">>
          /\ fetchResult' = [status |-> "pending", err |-> "none", comments |-> <<>>]
          /\ Await("gd_query")

\* fetchAllPages up to its first await
StartPages ==
  /\ allItems' = <<>>
  /\ IF MissingToken(token)
     THEN /\ Throws("MissingCredential")
          /\ UNCHANGED <<currentUrl, netLog>>
     ELSE /\ currentUrl' = 1
          /\ netLog' = Append(netLog, "page")
          /\ Await("pg_fetch")
          /\ UNCHANGED fetchResult

\* the answer to the query of getDisplayableCommentIds arrives
GdQueryDone ==
  /\ pc = "gd_query"
  /\ \E outcome \in GraphQLOutcomes :
       LET nodes == IF outcome = "ok" THEN ReviewThreadNodes(fetchPR) ELSE <<>>
           ids == DisplayableOf(nodes)
       IN  /\ metaNodes' = nodes
           /\ displayableCommentIds' = ids
           /\ fault' = (outcome # "ok")
           /\ pageFault' = FALSE
           /\ IF ShortCircuit(ids)
              THEN /\ Returns(<<>>)
                   /\ UNCHANGED netLog
              ELSE IF MissingToken(token)
              THEN /\ Throws("MissingCredential")
                   /\ UNCHANGED netLog
              ELSE /\ netLog' = Append(netLog, "threads")
                   /\ Await("tq_query")
                   /\ UNCHANGED fetchResult
  /\ UNCHANGED <<mutationVars, remoteVars, token, envVars, overlap, currentPRInfo, candidates, cycle,
                 fetchPR, tokenAtCall, commentToThreadMap, allItems, currentUrl>>

\* the answer to threadQuery arrives
TqQueryDone ==
  /\ pc = "tq_query"
  /\ \E outcome \in GraphQLOutcomes :
       /\ fault' = (fault \/ outcome # "ok")
       /\ IF outcome = "neterr"
          THEN /\ Throws("FetchFailed")
               /\ UNCHANGED <<commentToThreadMap, allItems, currentUrl, netLog>>
          ELSE /\ commentToThreadMap' =
                    IF outcome = "ok" THEN ThreadMapOf(ReviewThreadNodes(fetchPR)) ELSE {}
               /\ StartPages
  /\ UNCHANGED <<mutationVars, remoteVars, token, envVars, overlap, currentPRInfo, candidates, cycle,
                 fetchPR, tokenAtCall, displayableCommentIds, metaNodes, pageFault>>

\* the answer to the page request of fetchAllPages arrives
PgFetchDone ==
  /\ pc = "pg_fetch"
  /\ \E outcome \in RestOutcomes :
       /\ fault' = (fault \/ outcome # "ok")
       /\ pageFault' = (pageFault \/ outcome # "ok")
       /\ IF outcome # "ok"
          THEN /\ Throws("FetchFailed")
               /\ UNCHANGED <<allItems, currentUrl, netLog>>
          ELSE LET items == PushItems(allItems, PageItems(fetchPR, currentUrl))
                   next == FollowLink(NextLink(fetchPR, currentUrl))
               IN  /\ allItems' = items
                   /\ currentUrl' = next
                   /\ IF next # NoUrl
                      THEN /\ netLog' = Append(netLog, "page")
                           /\ Await("pg_fetch")
                           /\ UNCHANGED fetchResult
                      ELSE /\ Returns(BuildComments(items, displayableCommentIds,
                                                    commentToThreadMap))
                           /\ UNCHANGED netLog
  /\ UNCHANGED <<mutationVars, remoteVars, token, envVars, overlap, currentPRInfo, candidates, cycle,
                 fetchPR, tokenAtCall, displayableCommentIds, commentToThreadMap,
                 metaNodes>>

\* ----------------------------------------------------- refreshComments
\* the outer catch of refreshComments shows the error: the cycle ends
\* without a fetch
CycleFails(c, err) ==
  /\ cycle' = [c EXCEPT !.shown = @ \cup {err}]
  /\ pc' = "idle"
  /\ branchForce' = FALSE
  /\ candidates' = {}
  /\ Quiet
  /\ UNCHANGED <<currentPRInfo, fetchLocals, fetchResult, providerVars>>

\* getCurrentPullRequest rejects: the inner catch shows the message and
\* asks for a PR number
AskPRNumber(c, err) ==
  /\ cycle' = [c EXCEPT !.resolved = err, !.shown = @ \cup {err}]
  /\ Await("rc_input")
  /\ candidates' = {}
  /\ UNCHANGED <<currentPRInfo, fetchLocals, fetchResult>>

\* a PR number is known: it is stored and the comments are fetched
Resolved(c, prNumber) ==
  /\ cycle' = c
  /\ currentPRInfo' = prNumber
  /\ candidates' = {}
  /\ Call(prNumber)

\* getCurrentPullRequest returns the number
ReturnsNumber(c, prNumber) ==
  Resolved([c EXCEPT !.resolved = "ok", !.number = prNumber], prNumber)

\* no fetch has been called in the cycle that starts
NoFetchYet ==
  /\ fetchPR' = NoPR
  /\ tokenAtCall' = FALSE
  /\ displayableCommentIds' = {}
  /\ commentToThreadMap' = {}
  /\ metaNodes' = <<>>
  /\ allItems' = <<>>
  /\ currentUrl' = NoUrl
  /\ netLog' = <<>>
  /\ fault' = FALSE
  /\ pageFault' = FALSE
  /\ fetchResult' = [status |-> "none", err |-> "none", comments |-> <<>>]

\* refreshComments(true) up to await gitService.getRepositoryInfo()
StartForce ==
  /\ branchForce' = TRUE
  /\ pc' = "rc_locate"
  /\ NoFetchYet
  /\ mutation' = NoMutation
  /\ cycle' = NoCycle
  /\ Quiet
  /\ UNCHANGED <<activeComment, remoteVars, token, envVars, overlap, currentPRInfo, candidates,
                 providerVars>>

\* command gittron.fetchPRComments
FetchPRCommentsCommand ==
  /\ pc = "idle"
  /\ StartForce

\* command gittron.refreshComments
RefreshCommentsCommand ==
  /\ pc = "idle"
  /\ IF currentPRInfo = NoPR
     THEN StartForce
     ELSE /\ Call(currentPRInfo)
          /\ mutation' = NoMutation
          /\ UNCHANGED <<activeComment, remoteVars, token, envVars, overlap, currentPRInfo,
                         candidates, cycle>>

\* await gitService.getRepositoryInfo() of refreshComments completes
RcLocateDone ==
  /\ pc = "rc_locate"
  /\ LET repoInfo == getRepositoryInfo(gitService, workspace)
         located == [cycle EXCEPT !.located = repoInfo]
     IN  IF repoInfo.err # "none"
         THEN CycleFails(located, repoInfo.err)
         ELSE /\ cycle' = located
              /\ Await("pr_locate")
              /\ UNCHANGED <<currentPRInfo, candidates, fetchLocals, fetchResult>>
  /\ UNCHANGED <<mutationVars, remoteVars, token, envVars, overlap>>

\* await this.getRepositoryInfo() of getCurrentPullRequest completes, and
\* the token is read
PrLocateDone ==
  /\ pc = "pr_locate"
  /\ LET repoInfo == getRepositoryInfo(gitService, workspace)
     IN  IF repoInfo.err # "none"
         THEN AskPRNumber(cycle, repoInfo.err)
         ELSE IF MissingToken(token)
         THEN AskPRNumber(cycle, "MissingCredential")
         ELSE /\ cycle' = [cycle EXCEPT !.located = repoInfo]
              /\ Await("pr_query")
              /\ UNCHANGED <<currentPRInfo, candidates, fetchLocals, fetchResult>>
  /\ UNCHANGED <<mutationVars, remoteVars, token, envVars, overlap>>

\* the answer to findPullRequestsForBranch arrives
PrQueryDone ==
  /\ pc = "pr_query"
  /\ \E outcome \in RestOutcomes :
       LET prs == OpenPullRequests(cycle.located.branch)
           answered == [cycle EXCEPT !.answered = TRUE, !.matches = prs]
       IN  IF outcome # "ok"
           THEN AskPRNumber(cycle, "FetchFailed")
           ELSE IF NoneFound(prs)
           THEN AskPRNumber(answered, "NoPullRequestForBranch")
           ELSE IF Cardinality(prs) = 1
           THEN ReturnsNumber(answered, CHOOSE n \in prs : TRUE)
           ELSE /\ cycle' = answered
                /\ candidates' = prs
                /\ Await("pr_pick")
                /\ UNCHANGED <<currentPRInfo, fetchLocals, fetchResult>>
  /\ UNCHANGED <<mutationVars, remoteVars, token, envVars, overlap>>

\* showQuickPick of getCurrentPullRequest answers; NoPR is a dismissed pick
PrPickDone ==
  /\ pc = "pr_pick"
  /\ \E selected \in candidates \cup {NoPR} :
       IF selected = NoPR
       THEN AskPRNumber(cycle, "SelectionCancelled")
       ELSE ReturnsNumber(cycle, selected)
  /\ UNCHANGED <<mutationVars, remoteVars, token, envVars, overlap>>

\* showInputBox of refreshComments answers; -1 is a dismissed box, and the
\* box accepts digits only
RcInputDone ==
  /\ pc = "rc_input"
  /\ \E prInput \in {-1} \cup (0..MaxPR) :
       IF prInput = -1 THEN CycleFails(cycle, "PRNumberRequired")
       ELSE IF prInput = 0 THEN CycleFails(cycle, "NoPRNumber")
       ELSE Resolved([cycle EXCEPT !.manual = TRUE], prInput)
  /\ UNCHANGED <<mutationVars, remoteVars, token, envVars, overlap>>

\* the user checks out another branch, or a commit, between two commands
Checkout ==
  /\ pc = "idle"
  /\ \E head \in Heads \ {workspace.head} :
       workspace' = [workspace EXCEPT !.head = head]
  /\ Quiet
  /\ UNCHANGED <<gitService, overlap, mutationVars, remoteVars, token, currentPRInfo, providerVars,
                 pc, branchForce, candidates, cycle, fetchLocals, fetchResult>>

\* -------------------------------------------------------- configuration
\* command gittron.setGitHubToken with a non-empty input
SetToken ==
  /\ token' = TRUE
  /\ Quiet
  /\ UNCHANGED <<envVars, overlap, mutationVars, remoteVars, currentPRInfo, providerVars, pc, branchForce,
                 candidates, cycle, fetchLocals, fetchResult>>

\* the setting gittron.githubToken is emptied in the settings of the editor
TokenRemoved ==
  /\ token' = FALSE
  /\ Quiet
  /\ UNCHANGED <<envVars, overlap, mutationVars, remoteVars, currentPRInfo, providerVars, pc, branchForce,
                 candidates, cycle, fetchLocals, fetchResult>>

\* ------------------------------------------------- the items of the tree
\* getChildren(element): the comments of the thread of a thread header that
\* are not marked first
ChildrenOf(cs, element) ==
  IF element.contextValue = "prThreadHeader" /\ element.threadId # NoThread
  THEN LET threadComments ==
             SelectSeq(cs, LAMBDA c : c.threadId = element.threadId /\ ~c.isFirstComment)
       IN  [i \in 1..Len(threadComments) |-> CommentItem(threadComments[i], FALSE)]
  ELSE <<>>

\* every item the view shows: the top-level items and their children
ShownItems ==
  Range(treeItems) \cup UNION {Range(ChildrenOf(comments, it)) : it \in Range(treeItems)}

\* the items that carry the command gittron.handleComment: all but the header
ClickableItems == {it \in ShownItems : it.contextValue # "prHeader"}

\* ------------------------------------------------- resolveCommentThread
MutationOutcomes == {"ok", "neterr", "gqlerr", "autherr"}

\* a lookup that settles for the first answered thread
FirstThread(nodes, commentId) ==
  IF nodes = <<>> THEN NoThread ELSE nodes[1].id

\* the loop of resolveCommentThread over the answered nodes: the id of the
\* first thread that holds the comment, NoThread when there is none
LookupThread(nodes, commentId) ==
  LET hits == {i \in 1..Len(nodes) :
                 \E n \in Range(nodes[i].comments) : n.databaseId = commentId}
  IN  IF hits = {} THEN NoThread ELSE nodes[SetMin(hits)].id

\* what the remote answers to the resolve mutation
ResolveAnswer(outcome) ==
  [errors |-> (outcome = "gqlerr"), isResolved |-> (outcome = "ok")]

AnsweredWithoutErrors(answer) == ~answer.errors

\* if (resolveData.errors) return false;
\* return resolveData.data?.resolveReviewThread?.thread?.isResolved === true
ResolveSucceeded(answer) == ~answer.errors /\ answer.isResolved

\* the fault that an answer other than "ok" stands for
FaultOf(outcome) ==
  IF outcome = "neterr" THEN "transport"
  ELSE IF outcome = "gqlerr" THEN "graphql"
  ELSE IF outcome \in {"autherr", "httperr"} THEN "http"
  ELSE "none"

PatchesCollection ==
  /\ comments' = <<>>
  /\ UNCHANGED <<prInfo, treeItems, parentMap, loadedPR, currentPRInfo>>

\* resolveCommentThread and replyToComment hold no reference to the
\* provider or to currentPRInfo
ServiceFrame == UNCHANGED <<providerVars, currentPRInfo>>

AlwaysRefresh(result) == TRUE

\* if (success) / if (replyComment) of the commands
Succeeded(result) == result \in {"true", "comment"}

\* the mutation ends with the given result and the command handles it:
\* on success it awaits refreshComments(), otherwise it shows the error
Completes(result, hover) ==
  IF Succeeded(result)
  THEN /\ activeComment' = IF hover /\ result = "true" THEN NoComment ELSE activeComment
       /\ Call(currentPRInfo)
       /\ UNCHANGED currentPRInfo
  ELSE /\ pc' = "idle"
       /\ Quiet
       /\ ServiceFrame
       /\ UNCHANGED <<activeComment, branchForce, fetchLocals, fetchResult>>

\* a resolve command calls resolveCommentThread, which runs up to its
\* first await
StartResolve(id, hover) ==
  LET call == [NoMutation EXCEPT !.kind = "resolve", !.hover = hover,
                                 !.commentId = id, !.tokenAtCall = token]
  IN  /\ NoFetchYet
      /\ IF MissingToken(token)
         THEN /\ mutation' = [call EXCEPT !.outcome = "thrown"]
              /\ pc' = "idle"
         ELSE /\ mutation' = [call EXCEPT !.outcome = "pending", !.log = <<"lookup">>]
              /\ pc' = "rs_lookup"
      /\ Quiet
      /\ ServiceFrame
      /\ UNCHANGED <<activeComment, remoteVars, token, envVars, overlap, candidates, cycle, branchForce>>

\* command gittron.resolveComment
ResolveCommentCommand ==
  /\ pc = "idle"
  /\ currentPRInfo # NoPR
  /\ \E commentItem \in ShownItems : StartResolve(commentItem.id, FALSE)

\* command gittron.resolveCommentFromHover
ResolveCommentFromHoverCommand ==
  /\ pc = "idle"
  /\ activeComment # NoComment
  /\ currentPRInfo # NoPR
  /\ StartResolve(activeComment, TRUE)

\* the answer to the thread query of resolveCommentThread arrives
RsLookupDone ==
  /\ pc = "rs_lookup"
  /\ \E outcome \in GraphQLOutcomes :
       LET nodes == IF outcome = "ok" THEN ReviewThreadNodes(currentPRInfo) ELSE <<>>
           threadId == LookupThread(nodes, mutation.commentId)
       IN  IF outcome # "ok" \/ threadId = NoThread
           THEN /\ mutation' = [mutation EXCEPT !.outcome = "false",
                                                !.fault = FaultOf(outcome)]
                /\ Completes("false", mutation.hover)
           ELSE /\ mutation' = [mutation EXCEPT !.threadId = threadId,
                                                !.log = Append(@, "resolve")]
                /\ pc' = "rs_resolve"
                /\ Quiet
                /\ ServiceFrame
                /\ UNCHANGED <<activeComment, branchForce, fetchLocals, fetchResult>>
  /\ UNCHANGED <<remoteVars, token, envVars, overlap, candidates, cycle>>

\* the answer to the resolve mutation arrives; the remote has resolved the
\* thread when it answers "ok"
RsResolveDone ==
  /\ pc = "rs_resolve"
  /\ \E outcome \in MutationOutcomes :
       LET result == IF outcome # "neterr" /\ ResolveSucceeded(ResolveAnswer(outcome))
                     THEN "true" ELSE "false"
       IN  /\ threadResolved' = IF outcome = "ok"
                                THEN [threadResolved EXCEPT ![mutation.threadId] = TRUE]
                                ELSE threadResolved
           /\ mutation' = [mutation EXCEPT !.outcome = result, !.fault = FaultOf(outcome)]
           /\ Completes(result, mutation.hover)
  /\ UNCHANGED <<remoteComments, token, envVars, overlap, candidates, cycle>>

\* --------------------------------------------------------- replyToComment
\* the review comment that the remote creates for a reply to the comment
\* at position i of the listing
ReplyComment(listing, i) ==
  [id |-> Len(listing) + 1,
   thread |-> listing[i].thread,
   path |-> listing[i].path,
   outdated |-> listing[i].outdated,
   createdAt |-> listing[Len(listing)].createdAt + 1]

\* a reply command awaits showInputBox
StartReply(id, hover) ==
  /\ mutation' = [NoMutation EXCEPT !.kind = "reply", !.hover = hover, !.commentId = id]
  /\ pc' = "rp_input"
  /\ NoFetchYet
  /\ Quiet
  /\ UNCHANGED <<activeComment, remoteVars, token, envVars, overlap, currentPRInfo, candidates, cycle,
                 branchForce, providerVars>>

\* command gittron.replyToComment
ReplyToCommentCommand ==
  /\ pc = "idle"
  /\ currentPRInfo # NoPR
  /\ \E commentItem \in ShownItems : StartReply(commentItem.id, FALSE)

\* command gittron.replyToCommentFromHover
ReplyToCommentFromHoverCommand ==
  /\ pc = "idle"
  /\ activeComment # NoComment
  /\ currentPRInfo # NoPR
  /\ StartReply(activeComment, TRUE)

\* the texts typed into the input box: sequences of characters
Chars == {" ", "r"}

Texts == UNION {[1..n -> Chars] : n \in 0..MaxText}

RECURSIVE TrimStart(_)
TrimStart(text) ==
  IF text # <<>> /\ Head(text) = " " THEN TrimStart(Tail(text)) ELSE text

RECURSIVE TrimEnd(_)
TrimEnd(text) ==
  IF text # <<>> /\ text[Len(text)] = " "
  THEN TrimEnd(SubSeq(text, 1, Len(text) - 1)) ELSE text

\* String.prototype.trim
Trim(text) == TrimEnd(TrimStart(text))

AcceptsInput(input) == NoMessage

\* validateInput of the input box of the reply commands
ValidateInput(input) ==
  IF Len(Trim(input)) = 0 THEN "Reply cannot be empty" ELSE NoMessage

\* showInputBox answers.  The box is dismissed, or the user presses Enter on
\* a text: while validateInput returns a message the box shows it and stays
\* open, otherwise the box resolves with the text.  The command returns on
\* an empty text and otherwise calls replyToComment with the trimmed text,
\* which runs up to its first await.
RpInputDone ==
  /\ pc = "rp_input"
  /\ \/ /\ pc' = "idle"
        /\ UNCHANGED mutation
     \/ \E replyText \in Texts :
          IF ValidateInput(replyText) # NoMessage
          THEN /\ mutation' = [mutation EXCEPT !.input = replyText,
                                               !.validation = ValidateInput(replyText)]
               /\ pc' = "rp_input"
          ELSE IF replyText = <<>>
          THEN /\ mutation' = [mutation EXCEPT !.input = <<>>, !.validation = NoMessage]
               /\ pc' = "idle"
          ELSE IF MissingToken(token)
          THEN /\ mutation' = [mutation EXCEPT !.input = <<>>, !.validation = NoMessage,
                                               !.body = Trim(replyText),
                                               !.outcome = "thrown"]
               /\ pc' = "idle"
          ELSE /\ mutation' = [mutation EXCEPT !.input = <<>>, !.validation = NoMessage,
                                               !.body = Trim(replyText),
                                               !.outcome = "pending",
                                               !.tokenAtCall = TRUE,
                                               !.log = <<"original">>]
               /\ pc' = "rp_original"
  /\ Quiet
  /\ ServiceFrame
  /\ UNCHANGED <<activeComment, remoteVars, token, envVars, overlap, candidates, cycle, branchForce,
                 fetchLocals, fetchResult>>

\* the remote holds a review comment with the id
HoldsComment(listing, commentId) ==
  \E i \in 1..Len(listing) : listing[i].id = commentId

\* the response to GET pulls/comments/{commentId}: 404 for a comment that
\* the remote does not hold
OriginalResponse(outcome, listing, commentId) ==
  [ok |-> (outcome = "ok" /\ HoldsComment(listing, commentId))]

IgnoresStatus(response) == TRUE

\* if (!originalCommentResponse.ok) throw
ResponseOk(response) == response.ok

\* the answer to GET pulls/comments/{commentId} arrives
RpOriginalDone ==
  /\ pc = "rp_original"
  /\ \E outcome \in RestOutcomes :
       LET originalCommentResponse ==
             OriginalResponse(outcome, RemoteReviewComments(currentPRInfo),
                              mutation.commentId)
       IN  IF outcome # "neterr" /\ ResponseOk(originalCommentResponse)
           THEN /\ mutation' = [mutation EXCEPT !.log = Append(@, "post")]
                /\ pc' = "rp_post"
           ELSE /\ mutation' = [mutation EXCEPT
                                  !.outcome = "thrown",
                                  !.fault = IF outcome = "ok" THEN "http"
                                            ELSE FaultOf(outcome)]
                /\ pc' = "idle"
  /\ Quiet
  /\ ServiceFrame
  /\ UNCHANGED <<activeComment, remoteVars, token, envVars, overlap, candidates, cycle, branchForce,
                 fetchLocals, fetchResult>>

\* the answer to POST pulls/{n}/comments arrives; the remote has created
\* the reply when it answers "ok", which it does not for a reply to a
\* comment that it does not hold.  The remote holds at most MaxComments
\* review comments.
RpPostDone ==
  /\ pc = "rp_post"
  /\ \E outcome \in RestOutcomes :
       LET target == SetMin({i \in 1..Len(remoteComments) :
                                remoteComments[i].id = mutation.commentId})
       IN  IF /\ outcome = "ok"
              /\ HoldsComment(remoteComments, mutation.commentId)
              /\ Len(remoteComments) < MaxComments
           THEN /\ remoteComments' = Append(remoteComments,
                                            ReplyComment(remoteComments, target))
                /\ mutation' = [mutation EXCEPT !.outcome = "comment"]
                /\ Completes("comment", mutation.hover)
           ELSE /\ mutation' = [mutation EXCEPT
                                  !.outcome = "thrown",
                                  !.fault = IF outcome = "ok" THEN "http"
                                            ELSE FaultOf(outcome)]
                /\ Completes("thrown", mutation.hover)
                /\ UNCHANGED remoteComments
  /\ UNCHANGED <<threadResolved, token, envVars, overlap, candidates, cycle>>

\* command gittron.handleComment, run by a click on an item of the tree
HandleCommentCommand ==
  /\ pc = "idle"
  /\ \E item \in ClickableItems : activeComment' = item.id
  /\ Quiet
  /\ UNCHANGED <<mutation, remoteVars, token, envVars, overlap, currentPRInfo, providerVars, pc,
                 branchForce, candidates, cycle, fetchLocals, fetchResult>>

Next ==
  \/ FetchPRCommentsCommand
  \/ RefreshCommentsCommand
  \/ RcLocateDone
  \/ PrLocateDone
  \/ PrQueryDone
  \/ PrPickDone
  \/ RcInputDone
  \/ GdQueryDone
  \/ TqQueryDone
  \/ PgFetchDone
  \/ SetToken
  \/ TokenRemoved
  \/ Checkout

Spec == Init /\ [][Next]_vars

\* ---------------------------------------------------- fetch cycles alone
\* The extension after a cycle has stored a pull request: every further
\* cycle is a refresh of that pull request.
FetchInit ==
  /\ RemoteListing(MaxComments, Shapes)
  /\ threadResolved \in [1..MaxComments -> BOOLEAN]
  /\ \A t \in 1..MaxComments : t \notin ThreadsOf(remoteComments) => ~threadResolved[t]
  /\ token \in BOOLEAN
  /\ currentPRInfo = DataPR
  /\ comments = <<>>
  /\ prInfo = NoPR
  /\ treeItems = <<>>
  /\ parentMap = {}
  /\ pc = "idle"
  /\ branchForce = FALSE
  /\ candidates = {}
  /\ fetchPR = NoPR
  /\ tokenAtCall = FALSE
  /\ displayableCommentIds = {}
  /\ commentToThreadMap = {}
  /\ metaNodes = <<>>
  /\ allItems = <<>>
  /\ currentUrl = NoUrl
  /\ netLog = <<>>
  /\ fault = FALSE
  /\ pageFault = FALSE
  /\ fetchResult = [status |-> "none", err |-> "none", comments |-> <<>>]
  /\ activeComment = NoComment
  /\ mutation = NoMutation
  /\ fired = 0
  /\ gitService = "git-api"
  /\ workspace = StoredWorkspace
  /\ cycle = NoCycle
  /\ loadedPR = NoPR
  /\ overlap = NoOverlap

FetchNext ==
  \/ RefreshCommentsCommand
  \/ GdQueryDone
  \/ TqQueryDone
  \/ PgFetchDone
  \/ SetToken
  \/ TokenRemoved

FetchSpec == FetchInit /\ [][FetchNext]_vars

\* ------------------------------------ fetch cycles with the mutations
MutateNext ==
  \/ FetchNext
  \/ HandleCommentCommand
  \/ ResolveCommentCommand
  \/ ResolveCommentFromHoverCommand
  \/ RsLookupDone
  \/ RsResolveDone
  \/ ReplyToCommentCommand
  \/ ReplyToCommentFromHoverCommand
  \/ RpInputDone
  \/ RpOriginalDone
  \/ RpPostDone

\* a stored pull request whose review comments all have a path and whose
\* threads are unresolved until a resolve command resolves them
MutateInit ==
  /\ RemoteListing(MaxStored, {sh \in Shapes : sh.path # NoPath})
  /\ threadResolved = [t \in 1..MaxComments |-> FALSE]
  /\ token \in BOOLEAN
  /\ currentPRInfo = DataPR
  /\ comments = <<>>
  /\ prInfo = NoPR
  /\ treeItems = <<>>
  /\ parentMap = {}
  /\ pc = "idle"
  /\ branchForce = FALSE
  /\ candidates = {}
  /\ fetchPR = NoPR
  /\ tokenAtCall = FALSE
  /\ displayableCommentIds = {}
  /\ commentToThreadMap = {}
  /\ metaNodes = <<>>
  /\ allItems = <<>>
  /\ currentUrl = NoUrl
  /\ netLog = <<>>
  /\ fault = FALSE
  /\ pageFault = FALSE
  /\ fetchResult = [status |-> "none", err |-> "none", comments |-> <<>>]
  /\ activeComment = NoComment
  /\ mutation = NoMutation
  /\ fired = 0
  /\ gitService = "git-api"
  /\ workspace = StoredWorkspace
  /\ cycle = NoCycle
  /\ loadedPR = NoPR
  /\ overlap = NoOverlap

MutateSpec == MutateInit /\ [][MutateNext]_vars

\* ------------------------------------------ the pipeline as a function
\* getPullRequestComments and CommentsProvider.refresh as a function of the
\* remote: a fetch whose requests are answered in one step, from a remote of
\* at most MaxListing review comments, all with a path, in unresolved threads.
BuildInit ==
  /\ RemoteListing(MaxListing, {sh \in Shapes : sh.path # NoPath})
  /\ threadResolved = [t \in 1..MaxListing |-> FALSE]
  /\ token = TRUE
  /\ currentPRInfo = DataPR
  /\ comments = <<>>
  /\ prInfo = NoPR
  /\ treeItems = <<>>
  /\ parentMap = {}
  /\ pc = "idle"
  /\ branchForce = FALSE
  /\ candidates = {}
  /\ fetchPR = NoPR
  /\ tokenAtCall = FALSE
  /\ displayableCommentIds = {}
  /\ commentToThreadMap = {}
  /\ metaNodes = <<>>
  /\ allItems = <<>>
  /\ currentUrl = NoUrl
  /\ netLog = <<>>
  /\ fault = FALSE
  /\ pageFault = FALSE
  /\ fetchResult = [status |-> "none", err |-> "none", comments |-> <<>>]
  /\ activeComment = NoComment
  /\ mutation = NoMutation
  /\ fired = 0
  /\ gitService = "git-api"
  /\ workspace = StoredWorkspace
  /\ cycle = NoCycle
  /\ loadedPR = NoPR
  /\ overlap = NoOverlap

\* refreshComments() whose fetch runs to its return: the step-1 query and
\* the pages are answered; threadQuery is answered with the nodes or with
\* GraphQL errors, which the code does not look at
FetchAndRefresh ==
  /\ pc = "idle"
  /\ currentPRInfo # NoPR
  /\ \E outcome \in {"ok", "gqlerr"} :
       LET nodes == ReviewThreadNodes(currentPRInfo)
           ids == DisplayableOf(nodes)
           map == IF outcome = "ok" THEN ThreadMapOf(nodes) ELSE {}
           pages == [p \in 1..PageCount(currentPRInfo) |-> PageItems(currentPRInfo, p)]
           items == Concat(pages)
       IN  /\ fetchPR' = currentPRInfo
           /\ tokenAtCall' = token
           /\ metaNodes' = nodes
           /\ displayableCommentIds' = ids
           /\ currentUrl' = NoUrl
           /\ IF ShortCircuit(ids)
              THEN /\ commentToThreadMap' = {}
                   /\ allItems' = <<>>
                   /\ netLog' = <<"meta">>
                   /\ fault' = FALSE
                   /\ pageFault' = FALSE
                   /\ ReturnsFor(currentPRInfo, <<>>)
              ELSE /\ commentToThreadMap' = map
                   /\ allItems' = items
                   /\ netLog' = <<"meta", "threads">> \o [p \in 1..Len(pages) |-> "page"]
                   /\ fault' = (outcome # "ok")
                   /\ pageFault' = FALSE
                   /\ ReturnsFor(currentPRInfo, BuildComments(items, ids, map))
  /\ UNCHANGED <<mutationVars, remoteVars, token, envVars, overlap, currentPRInfo, candidates, cycle>>

BuildNext == FetchAndRefresh

BuildSpec == BuildInit /\ [][BuildNext]_vars

\* the same pipeline on longer listings: the review comments are created
\* at distinct times, in threads of the first page of the metadata query,
\* and at most one of them is outdated
LongListing(max) ==
  \E n \in 0..max :
    \E th \in {x \in [1..n -> 1..ThreadsFirst] : ThreadNumbering(x)}, k \in 0..n :
      remoteComments =
        [i \in 1..n |->
           RemoteComment(i, th[i], [path |-> "a.ts", outdated |-> (i = k)], i)]

LongInit ==
  /\ LongListing(MaxLong)
  /\ threadResolved = [t \in 1..MaxLong |-> FALSE]
  /\ token = TRUE
  /\ currentPRInfo = DataPR
  /\ comments = <<>>
  /\ prInfo = NoPR
  /\ treeItems = <<>>
  /\ parentMap = {}
  /\ pc = "idle"
  /\ branchForce = FALSE
  /\ candidates = {}
  /\ fetchPR = NoPR
  /\ tokenAtCall = FALSE
  /\ displayableCommentIds = {}
  /\ commentToThreadMap = {}
  /\ metaNodes = <<>>
  /\ allItems = <<>>
  /\ currentUrl = NoUrl
  /\ netLog = <<>>
  /\ fault = FALSE
  /\ pageFault = FALSE
  /\ fetchResult = [status |-> "none", err |-> "none", comments |-> <<>>]
  /\ activeComment = NoComment
  /\ mutation = NoMutation
  /\ fired = 0
  /\ gitService = "git-api"
  /\ workspace = StoredWorkspace
  /\ cycle = NoCycle
  /\ loadedPR = NoPR
  /\ overlap = NoOverlap

LongSpec == LongInit /\ [][BuildNext]_vars

\* ------------------------------------------- getRepositoryInfo alone
\* every workspace that the function may be called in
Workspaces == [repository : BOOLEAN, origin : BOOLEAN, url : Urls, head : Heads]

LocateInit ==
  /\ remoteComments = <<>>
  /\ threadResolved = [t \in 1..MaxComments |-> FALSE]
  /\ token \in BOOLEAN
  /\ currentPRInfo = NoPR
  /\ comments = <<>>
  /\ prInfo = NoPR
  /\ treeItems = <<>>
  /\ parentMap = {}
  /\ pc = "idle"
  /\ branchForce = FALSE
  /\ candidates = {}
  /\ fetchPR = NoPR
  /\ tokenAtCall = FALSE
  /\ displayableCommentIds = {}
  /\ commentToThreadMap = {}
  /\ metaNodes = <<>>
  /\ allItems = <<>>
  /\ currentUrl = NoUrl
  /\ netLog = <<>>
  /\ fault = FALSE
  /\ pageFault = FALSE
  /\ fetchResult = [status |-> "none", err |-> "none", comments |-> <<>>]
  /\ activeComment = NoComment
  /\ mutation = NoMutation
  /\ fired = 0
  /\ gitService \in GitServices
  /\ workspace \in Workspaces
  /\ cycle = NoCycle
  /\ loadedPR = NoPR
  /\ overlap = NoOverlap

\* a call of getRepositoryInfo
Locate ==
  /\ cycle = NoCycle
  /\ cycle' = [cycle EXCEPT !.located = getRepositoryInfo(gitService, workspace)]
  /\ UNCHANGED <<envVars, overlap, mutationVars, remoteVars, token, currentPRInfo, providerVars,
                 pc, branchForce, candidates, fetchLocals, fetchResult, fired>>

LocateNext == Locate

LocateSpec == LocateInit /\ [][LocateNext]_vars

\* ------------------- getPullRequestComments of src/services/github.ts
\* The service of src/services/github.ts reads the review comments a second
\* time, review by review, and takes the resolved comments from GraphQL.
\* The comments that were created together were submitted with one review.
ReviewOf(c) == c.createdAt

ReviewsOf(pr) ==
  {ReviewOf(RemoteReviewComments(pr)[i]) : i \in 1..Len(RemoteReviewComments(pr))}

\* what the REST listings tell github.ts of a review comment
ReviewItem(c) ==
  [id |-> c.id, path |-> c.path, outdated |-> c.outdated, createdAt |-> c.createdAt]

\* pulls/{pullNumber}/comments, all pages
ReviewComments(pr) ==
  [i \in 1..Len(RemoteReviewComments(pr)) |-> ReviewItem(RemoteReviewComments(pr)[i])]

\* pulls/{pullNumber}/reviews/{review.id}/comments, all pages
ReviewSpecificComments(pr, review) ==
  SelectSeq(ReviewComments(pr), LAMBDA c : c.createdAt = review)

\* the loop over reviews: the comments of a review whose retrieval failed
\* are left out and the loop goes on
RECURSIVE AdditionalReviewComments(_, _, _)
AdditionalReviewComments(pr, reviews, skipped) ==
  IF reviews = <<>> THEN <<>>
  ELSE (IF Head(reviews) \in skipped THEN <<>>
        ELSE ReviewSpecificComments(pr, Head(reviews)))
       \o AdditionalReviewComments(pr, Tail(reviews), skipped)

\* allReviewComments.filter((comment, index, array) =>
\*   array.findIndex(c => c.id === comment.id) === index)
UniqueReviewComments(all) ==
  LET first == {i \in 1..Len(all) : \A j \in 1..(i - 1) : all[j].id # all[i].id}
  IN  [k \in 1..Cardinality(first) |->
         all[CHOOSE i \in first : Cardinality({j \in first : j <= i}) = k]]

\* the loop of getResolvedCommentIds over the answered nodes
ResolvedOf(nodes) ==
  {c.databaseId : c \in
     UNION {{n \in Range(nodes[i].comments) : n.databaseId # 0 /\ nodes[i].isResolved} :
            i \in 1..Len(nodes)}}

\* filter (path, not outdated), map (resolved from GraphQL), filter (not
\* resolved)
FileComments(unique, resolvedCommentIds) ==
  LET kept == SelectSeq(unique, LAMBDA c : /\ c.path # NoPath
                                           /\ ~c.outdated
                                           /\ c.id \notin resolvedCommentIds)
  IN  [i \in 1..Len(kept) |->
         [id |-> kept[i].id, path |-> kept[i].path, createdAt |-> kept[i].createdAt,
          resolved |-> FALSE]]

\* the retrievals whose failure the catch of getPullRequestComments rethrows
Retrievals == <<"issues", "comments", "reviews">>

RequestsOf(pr, retrieval) ==
  IF retrieval = "comments" THEN [p \in 1..PageCount(pr) |-> "page"] ELSE <<retrieval>>

\* the requests issued up to and with retrieval number k
RECURSIVE RequestsUpTo(_, _)
RequestsUpTo(pr, k) ==
  IF k = 0 THEN <<"resolved">>
  ELSE RequestsUpTo(pr, k - 1) \o RequestsOf(pr, Retrievals[k])

\* getPullRequestComments of github.ts, from its call to its return or
\* throw: failed is the number of the retrieval that fails (0: none of the
\* three), skipped the reviews whose comments cannot be retrieved
FetchByReviews ==
  /\ pc = "idle"
  /\ currentPRInfo # NoPR
  /\ fetchPR' = currentPRInfo
  /\ tokenAtCall' = token
  /\ displayableCommentIds' = {}
  /\ commentToThreadMap' = {}
  /\ currentUrl' = NoUrl
  /\ IF MissingToken(token)
     THEN /\ metaNodes' = <<>>
          /\ allItems' = <<>>
          /\ netLog' = <<>>
          /\ fault' = FALSE
          /\ pageFault' = FALSE
          /\ fetchResult' = [status |-> "error", err |-> "MissingCredential",
                             comments |-> <<>>]
     ELSE \E outcome \in GraphQLOutcomes, failed \in 0..Len(Retrievals),
             skipped \in SUBSET ReviewsOf(currentPRInfo) :
            LET nodes == IF outcome = "ok" THEN ReviewThreadNodes(currentPRInfo) ELSE <<>>
                reviews == Ascending(ReviewsOf(currentPRInfo))
                all == ReviewComments(currentPRInfo)
                         \o AdditionalReviewComments(currentPRInfo, reviews, skipped)
                unique == UniqueReviewComments(all)
            IN  /\ metaNodes' = nodes
                /\ IF failed # 0
                   THEN /\ skipped = {}
                        /\ allItems' = <<>>
                        /\ netLog' = RequestsUpTo(currentPRInfo, failed)
                        /\ fault' = TRUE
                        /\ pageFault' = TRUE
                        /\ fetchResult' = [status |-> "error", err |-> "FetchFailed",
                                           comments |-> <<>>]
                   ELSE /\ allItems' = unique
                        /\ netLog' = RequestsUpTo(currentPRInfo, Len(Retrievals))
                                       \o [i \in 1..Len(reviews) |-> "review"]
                        /\ fault' = (outcome # "ok" \/ skipped # {})
                        /\ pageFault' = (skipped # {})
                        /\ fetchResult' =
                             [status |-> "ok", err |-> "none",
                              comments |-> FileComments(unique, ResolvedOf(nodes))]
  /\ Quiet
  /\ UNCHANGED <<mutationVars, remoteVars, token, envVars, overlap, currentPRInfo, candidates, cycle,
                 providerVars, pc, branchForce>>

ReviewsNext ==
  \/ FetchByReviews
  \/ SetToken
  \/ TokenRemoved

ReviewsSpec == FetchInit /\ [][ReviewsNext]_vars

\* ------------------------------------------- two overlapping cycles
\* No command of the extension waits for another: a command called while
\* refreshComments is suspended at an await runs a second refreshComments.
\* The second one is followed from await to await of refreshComments only:
\* the requests of its getPullRequestComments are answered in one step.

\* what getPullRequestComments returns when all its requests are answered
FetchedComments(pr) ==
  LET nodes == ReviewThreadNodes(pr)
      ids == DisplayableOf(nodes)
      pages == [p \in 1..PageCount(pr) |-> PageItems(pr, p)]
  IN  IF ShortCircuit(ids) THEN <<>>
      ELSE BuildComments(Concat(pages), ids, ThreadMapOf(nodes))

OverlapFrame ==
  UNCHANGED <<remoteVars, token, envVars, mutationVars, pc, branchForce, candidates,
              cycle, fetchLocals, fetchResult>>

\* the second refreshComments enters its (!currentPRInfo || forceNewPR) branch
OverlapForce ==
  /\ overlap' = [NoOverlap EXCEPT !.pc = "resolve", !.force = TRUE]
  /\ Quiet
  /\ OverlapFrame
  /\ UNCHANGED <<currentPRInfo, providerVars>>

\* command gittron.fetchPRComments, called while a cycle is suspended
OverlapFetchPRCommentsCommand ==
  /\ pc # "idle"
  /\ overlap.pc = "idle"
  /\ OverlapForce

\* command gittron.refreshComments, called while a cycle is suspended
OverlapRefreshCommentsCommand ==
  /\ pc # "idle"
  /\ overlap.pc = "idle"
  /\ IF currentPRInfo = NoPR
     THEN OverlapForce
     ELSE /\ overlap' = [NoOverlap EXCEPT !.pc = "fetch", !.prNumber = currentPRInfo]
          /\ Quiet
          /\ OverlapFrame
          /\ UNCHANGED <<currentPRInfo, providerVars>>

\* the second cycle comes to know its PR number, from the branch or from the
\* input box, and stores it; NoPR: it ends in the outer catch
OverlapResolveDone ==
  /\ overlap.pc = "resolve"
  /\ \E prNumber \in {NoPR} \cup PRNumbers :
       IF prNumber = NoPR \/ getRepositoryInfo(gitService, workspace).err # "none"
       THEN /\ overlap' = [overlap EXCEPT !.pc = "idle", !.result = "error"]
            /\ UNCHANGED currentPRInfo
       ELSE /\ overlap' = [overlap EXCEPT !.pc = "fetch", !.prNumber = prNumber]
            /\ currentPRInfo' = prNumber
  /\ Quiet
  /\ OverlapFrame
  /\ UNCHANGED providerVars

\* getPullRequestComments of the second cycle returns or throws
OverlapFetchDone ==
  /\ overlap.pc = "fetch"
  /\ \E returned \in BOOLEAN :
       IF returned
       THEN /\ overlap' = [overlap EXCEPT !.pc = "idle", !.result = "ok"]
            /\ comments' = SortComments(FetchedComments(overlap.prNumber))
            /\ loadedPR' = overlap.prNumber
            /\ Fire
            /\ treeItems' = GetChildren(comments', prInfo)
            /\ parentMap' = ParentMapOf(treeItems', comments')
            /\ prInfo' = IF overlap.force THEN overlap.prNumber
                         ELSE IF currentPRInfo # NoPR THEN currentPRInfo ELSE prInfo
       ELSE /\ overlap' = [overlap EXCEPT !.pc = "idle", !.result = "error"]
            /\ Quiet
            /\ UNCHANGED providerVars
  /\ OverlapFrame
  /\ UNCHANGED currentPRInfo

OverlapInit ==
  /\ Init
  /\ Len(remoteComments) = 1
  /\ token
  /\ gitService = "git-api"
  /\ workspace.repository /\ workspace.origin /\ workspace.url = GoodUrl

OverlapNext ==
  \/ FetchPRCommentsCommand
  \/ RefreshCommentsCommand
  \/ RcLocateDone
  \/ PrLocateDone
  \/ PrQueryDone
  \/ PrPickDone
  \/ RcInputDone
  \/ GdQueryDone
  \/ TqQueryDone
  \/ PgFetchDone
  \/ Checkout
  \/ OverlapFetchPRCommentsCommand
  \/ OverlapRefreshCommentsCommand
  \/ OverlapResolveDone
  \/ OverlapFetchDone

OverlapSpec == OverlapInit /\ [][OverlapNext]_vars

\* ------------------------------------- refresh and its then-callback
\* CommentsProvider.refresh assigns the collection and fires the change
\* event; the items of findTreeItem and the parent relationships are
\* assigned later, in the callback of this.getChildren().then().  The other
\* specifications take refresh and the callback as one step; here they are
\* two, and the remote changes between two calls of refresh.

\* refresh(comments) up to its return, called with a fetch result
refresh ==
  /\ pc = "idle"
  /\ currentPRInfo # NoPR
  /\ comments' = SortComments(FetchedComments(currentPRInfo))
  /\ loadedPR' = currentPRInfo
  /\ Fire
  /\ pc' = "rf_then"
  /\ UNCHANGED <<prInfo, treeItems, parentMap, remoteVars, token, envVars, overlap, mutationVars,
                 currentPRInfo, branchForce, candidates, cycle, fetchLocals, fetchResult>>

\* the callback of this.getChildren().then()
RefreshThen ==
  /\ pc = "rf_then"
  /\ treeItems' = GetChildren(comments, prInfo)
  /\ parentMap' = ParentMapOf(treeItems', comments)
  /\ pc' = "idle"
  /\ Quiet
  /\ UNCHANGED <<comments, prInfo, loadedPR, remoteVars, token, envVars, overlap, mutationVars,
                 currentPRInfo, branchForce, candidates, cycle, fetchLocals, fetchResult>>

\* a reviewer resolves a thread on the remote
RemoteResolves ==
  /\ pc = "idle"
  /\ \E t \in ThreadsOf(remoteComments) :
       /\ ~threadResolved[t]
       /\ threadResolved' = [threadResolved EXCEPT ![t] = TRUE]
  /\ Quiet
  /\ UNCHANGED <<remoteComments, token, envVars, overlap, mutationVars, currentPRInfo, providerVars,
                 pc, branchForce, candidates, cycle, fetchLocals, fetchResult>>

\* a reviewer replies to a review comment on the remote
RemoteReplies ==
  /\ pc = "idle"
  /\ Len(remoteComments) < MaxComments
  /\ \E i \in 1..Len(remoteComments) :
       remoteComments' = Append(remoteComments, ReplyComment(remoteComments, i))
  /\ Quiet
  /\ UNCHANGED <<threadResolved, token, envVars, overlap, mutationVars, currentPRInfo,
                 providerVars, pc, branchForce, candidates, cycle, fetchLocals, fetchResult>>

NotifyInit == FetchInit /\ token

NotifyNext ==
  \/ refresh
  \/ RefreshThen
  \/ RemoteResolves
  \/ RemoteReplies

NotifySpec == NotifyInit /\ [][NotifyNext]_vars

\* ------------------------------------------- the provider and its clear
\* CommentsProvider.clear; the items and the parent relationships stay as
\* the last refresh left them.  No command of extension.ts calls it: it is
\* an operation of the provider that a caller may run between two steps.
clear ==
  /\ comments' = <<>>
  /\ prInfo' = NoPR
  /\ loadedPR' = NoPR
  /\ Fire
  /\ UNCHANGED <<treeItems, parentMap, mutationVars, remoteVars, token, envVars, overlap, currentPRInfo,
                 pc, branchForce, candidates, cycle, fetchLocals, fetchResult>>

ViewNext ==
  \/ FetchNext
  \/ clear

ViewSpec == MutateInit /\ [][ViewNext]_vars

TypeOK ==
  /\ pc \in {"idle", "rc_locate", "pr_locate", "pr_query", "pr_pick", "rc_input",
             "gd_query", "tq_query", "pg_fetch", "rs_lookup", "rs_resolve",
             "rp_input", "rp_original", "rp_post", "rf_then"}
  /\ currentPRInfo \in {NoPR} \cup PRNumbers
  /\ prInfo \in {NoPR} \cup PRNumbers
  /\ token \in BOOLEAN
  /\ fetchResult.status \in {"none", "pending", "ok", "error"}
  /\ pc = "idle" => ~branchForce /\ candidates = {}
  /\ fired \in {0, 1}
  /\ gitService \in GitServices
  /\ workspace \in Workspaces
  /\ cycle.number \in {NoPR} \cup PRNumbers
  /\ cycle.matches \subseteq PRNumbers
  /\ cycle.manual \in BOOLEAN /\ cycle.answered \in BOOLEAN
  /\ pageFault \in BOOLEAN
  /\ loadedPR \in {NoPR} \cup PRNumbers
  /\ overlap.pc \in {"idle", "resolve", "fetch"}
  /\ overlap.prNumber \in {NoPR} \cup PRNumbers

\* ================================================================ claims
Result == fetchResult.comments

Listing == RemoteReviewComments(fetchPR)

\* what the remote holds: the comment is file-anchored, not outdated and in
\* an unresolved thread
Live(c) == c.path # NoPath /\ ~c.outdated /\ ~threadResolved[c.thread]

PageRequests == Cardinality({i \in 1..Len(netLog) : netLog[i] = "page"})

\* C1: every comment returned by getPullRequestComments, and every comment
\* the provider holds after any sequence of fetches, has resolved = false
\* and a non-empty path.
C1_UnresolvedWithPath ==
  /\ \A i \in 1..Len(Result) : ~Result[i].resolved /\ Result[i].path # NoPath
  /\ \A i \in 1..Len(comments) : ~comments[i].resolved /\ comments[i].path # NoPath

\* a fetch surfaced comments of a remote that also holds a comment without
\* path and a comment of a resolved thread
C1_Witness ==
  /\ fetchResult.status = "ok"
  /\ Result # <<>>
  /\ comments # <<>>
  /\ \E i \in 1..Len(Listing) : Listing[i].path = NoPath
  /\ \E i \in 1..Len(Listing) : threadResolved[Listing[i].thread]

AllAnchored == \A i \in 1..Len(Listing) : Listing[i].path # NoPath

\* C2: in a fetch result, every thread with two or more surfaced comments
\* has exactly one comment marked isFirstComment, and that comment has the
\* least createdAt of the surfaced comments of the thread.  Stated for a
\* remote all of whose review comments have a path.
C2_ExactlyOneFirst ==
  (fetchResult.status = "ok" /\ AllAnchored) =>
    \A t \in 1..MaxComments :
      LET members == {i \in 1..Len(Result) : Result[i].threadId = t}
      IN  Cardinality(members) >= 2 =>
            \E f \in members :
              /\ Result[f].isFirstComment
              /\ \A j \in members \ {f} : ~Result[j].isFirstComment
              /\ \A j \in members : Result[f].createdAt <= Result[j].createdAt

\* C3: a thread with exactly one displayable comment whose other comments
\* are outdated yields exactly that comment, marked isFirstComment.  Stated
\* for a fetch none of whose requests failed and for a thread that fits in
\* one page of the metadata query.
C3_SoleDisplayableIsFirst ==
  (fetchResult.status = "ok" /\ ~fault) =>
    \A t \in ThreadsOf(Listing) :
      LET mine == {i \in 1..Len(Listing) : Listing[i].thread = t}
          live == {i \in mine : Live(Listing[i])}
          got == {k \in 1..Len(Result) : Result[k].threadId = t}
      IN  (/\ Cardinality(live) = 1
           /\ Cardinality(mine) <= CommentsFirst
           /\ t <= ThreadsFirst
           /\ \A i \in mine \ live : Listing[i].outdated) =>
            /\ Cardinality(got) = 1
            /\ \A k \in got : /\ \E i \in live : Listing[i].id = Result[k].id
                              /\ Result[k].isFirstComment

\* C4: a comment is returned if and only if the REST listing holds it and
\* the answered thread metadata marks it file-anchored, not outdated and in
\* an unresolved thread; it is returned once, in listing order.
C4_ResultIsExactlyDisplayable ==
  fetchResult.status = "ok" =>
    LET marked == {i \in 1..Len(Listing) :
                     \E t \in 1..Len(metaNodes) :
                       \E k \in 1..Len(metaNodes[t].comments) :
                         /\ metaNodes[t].comments[k].databaseId = Listing[i].id
                         /\ metaNodes[t].comments[k].path # NoPath
                         /\ ~metaNodes[t].comments[k].outdated
                         /\ ~metaNodes[t].isResolved}
    IN  /\ Len(Result) = Cardinality(marked)
        /\ \A i \in marked : \E k \in 1..Len(Result) : Result[k].id = Listing[i].id
        /\ \A k \in 1..Len(Result) : \E i \in marked : Result[k].id = Listing[i].id
        /\ \A k \in 1..(Len(Result) - 1) : Result[k].id < Result[k + 1].id

\* a fetch listed the REST comments and returned some but not all of them
C4_Witness ==
  /\ fetchResult.status = "ok"
  /\ PageRequests >= 1
  /\ Result # <<>>
  /\ Len(Result) < Len(Listing)

\* C5: every remote review comment that is file-anchored, not outdated and
\* in an unresolved thread is in the fetch result, whatever the number of
\* threads and of comments per thread.  Stated for a fetch none of whose
\* requests failed and for a remote all of whose review comments have a path.
C5_MetadataCoversAll ==
  (fetchResult.status = "ok" /\ ~fault /\ AllAnchored) =>
    \A i \in 1..Len(Listing) :
      Live(Listing[i]) => \E k \in 1..Len(Result) : Result[k].id = Listing[i].id

\* C6: when fetchAllPages has returned, allItems holds the items of all
\* pages of the listing, each once and in page order, and one request was
\* issued per page.
C6_PaginationComplete ==
  (fetchResult.status = "ok" /\ PageRequests >= 1) =>
    /\ allItems = [i \in 1..Len(Listing) |-> RestItem(Listing[i])]
    /\ PageRequests = PageCount(fetchPR)

\* fetchAllPages returned the items of a listing of several pages
C6_Witness ==
  /\ fetchResult.status = "ok"
  /\ PageRequests >= 2
  /\ Len(allItems) > PerPage

\* C7: a fetch one of whose requests failed ends with an error, never with
\* a normal result.
C7_FailureIsError ==
  fault => fetchResult.status \in {"pending", "error"}

\* C8: the step that completes a fetch one of whose requests failed leaves
\* the collection of the provider as it was.
C8_FailedFetchKeepsCollection ==
  [][(fetchResult.status = "pending" /\ fetchResult'.status # "pending" /\ fault')
       => comments' = comments]_vars

\* C9: a fetch called while no credential is configured fails with the
\* missing-credential error and issues no request.
C9_MissingCredentialNoRequest ==
  (fetchResult.status # "none" /\ ~tokenAtCall) =>
    /\ fetchResult.status = "error"
    /\ fetchResult.err = "MissingCredential"
    /\ netLog = <<>>

\* a fetch was called for a known pull request without a credential
C9_Witness ==
  /\ ~tokenAtCall
  /\ fetchResult.status = "error"
  /\ fetchPR # NoPR
  /\ currentPRInfo # NoPR

\* C10: once step 1 has computed an empty displayable-id set, the fetch has
\* returned the empty result and the metadata query is the only request it
\* issued.
C10_EmptySetShortCircuit ==
  (netLog # <<>> /\ pc # "gd_query" /\ displayableCommentIds = {}) =>
    /\ fetchResult.status = "ok"
    /\ Result = <<>>
    /\ netLog = <<"meta">>

\* step 1 was answered without failure for a pull request that has review
\* comments, none of them displayable
C10_Witness ==
  /\ fetchResult.status = "ok"
  /\ ~fault
  /\ displayableCommentIds = {}
  /\ Listing # <<>>
  /\ netLog = <<"meta">>

\* the sign of a value returned by the comparator
Sign(x) == IF x < 0 THEN -1 ELSE IF x > 0 THEN 1 ELSE 0

\* C11: on the collection that refresh sorts, the comparator is
\* sign-antisymmetric for every pair of comments and transitive for every
\* triple: a <= b and b <= c give a <= c.  Stated for a remote all of whose
\* review comments have a path.
C11_ComparatorTotalOrder ==
  (fetchResult.status = "ok" /\ AllAnchored) =>
    \A a \in Range(Result), b \in Range(Result) :
      /\ Sign(Compare(a, b, Result)) = 0 - Sign(Compare(b, a, Result))
      /\ \A c \in Range(Result) :
           (Compare(a, b, Result) <= 0 /\ Compare(b, c, Result) <= 0)
             => Compare(a, c, Result) <= 0

\* CommentsProvider.getAllComments()
getAllComments == comments

\* CommentsProvider.getCommentsInThread(threadId)
getCommentsInThread(threadId) == SelectSeq(comments, LAMBDA c : c.threadId = threadId)

\* positions in getAllComments() of the comments of thread t
PositionsOf(t) == {i \in 1..Len(getAllComments) : getAllComments[i].threadId = t}

\* positions in getAllComments() of the comments marked first of thread t
FirstsOf(t) == {i \in PositionsOf(t) : getAllComments[i].isFirstComment}

\* C12: after refresh, when the comments marked first of two threads have
\* different createdAt, every comment of the thread whose first comment is
\* later precedes every comment of the other thread in getAllComments().
\* Stated for a remote all of whose review comments have a path.
C12_NewestThreadFirst ==
  (fetchResult.status = "ok" /\ AllAnchored) =>
    \A ta \in 1..ThreadsFirst, tb \in 1..ThreadsFirst :
      \A fa \in FirstsOf(ta), fb \in FirstsOf(tb) :
        (ta # tb /\ getAllComments[fa].createdAt < getAllComments[fb].createdAt) =>
          \A i \in PositionsOf(ta), j \in PositionsOf(tb) : j < i

\* C13: after refresh, two comments of one thread are in ascending order
\* of createdAt in getAllComments() and in getCommentsInThread(threadId),
\* whatever other threads the collection holds.  Stated for a remote all of
\* whose review comments have a path.
C13_ChronologicalInThread ==
  (fetchResult.status = "ok" /\ AllAnchored) =>
    \A t \in 1..ThreadsFirst :
      /\ \A i \in PositionsOf(t), j \in PositionsOf(t) :
           getAllComments[i].createdAt < getAllComments[j].createdAt => i < j
      /\ LET inThread == getCommentsInThread(t)
         IN  \A i \in 1..Len(inThread), j \in 1..Len(inThread) :
               inThread[i].createdAt < inThread[j].createdAt => i < j

\* position in getAllComments() of the comment with the given id
PositionOf(id) == CHOOSE i \in 1..Len(getAllComments) : getAllComments[i].id = id

\* C14: refresh applied to the collection it has ordered leaves the order
\* unchanged, and two comments of the input that compare equal keep their
\* input order in getAllComments().  Stated for a remote all of whose review
\* comments have a path.
C14_RefreshIdempotentStable ==
  (fetchResult.status = "ok" /\ AllAnchored) =>
    /\ SortComments(getAllComments) = getAllComments
    /\ \A i \in 1..Len(Result), j \in 1..Len(Result) :
         (i < j /\ Compare(Result[i], Result[j], Result) = 0)
           => PositionOf(Result[i].id) < PositionOf(Result[j].id)

\* C15: two fetches in a row from an unchanged remote that both return
\* normally return the same set of comments, with the same fields.
C15_FetchTwiceSetEqual ==
  [][(fetchResult.status = "ok" /\ fetchResult'.status = "ok")
       => Range(fetchResult'.comments) = Range(fetchResult.comments)]_vars

\* the remote holds no review comment with the id that the mutation targets
TargetInNoThread ==
  \A i \in 1..Len(remoteComments) : remoteComments[i].id # mutation.commentId

\* C16: resolveCommentThread called with a credential for a comment id that
\* is in no review thread returns false once its thread query is answered,
\* throws nothing and issues no resolve mutation.
C16_UnknownCommentReturnsFalse ==
  (/\ mutation.kind = "resolve"
   /\ mutation.tokenAtCall
   /\ pc # "rs_lookup"
   /\ TargetInNoThread) =>
    /\ mutation.outcome = "false"
    /\ mutation.log = <<"lookup">>

\* the thread query was answered without fault for an id in no thread
C16_Witness ==
  /\ mutation.kind = "resolve"
  /\ TargetInNoThread
  /\ mutation.outcome = "false"
  /\ mutation.fault = "none"
  /\ pc = "idle"

\* C17: resolveCommentThread returns true only after the remote has
\* answered the resolve mutation with the thread resolved, and a call one
\* of whose requests met a transport, GraphQL or HTTP error returns false.
C17_TrueOnlyIfConfirmed ==
  mutation.kind = "resolve" =>
    /\ mutation.outcome = "true" =>
         /\ mutation.log = <<"lookup", "resolve">>
         /\ mutation.fault = "none"
         /\ threadResolved[mutation.threadId]
    /\ mutation.fault # "none" => mutation.outcome = "false"

\* the resolve mutation met a transport error and the call returned false
C17_Witness ==
  /\ mutation.kind = "resolve"
  /\ mutation.log = <<"lookup", "resolve">>
  /\ mutation.fault = "transport"
  /\ mutation.outcome = "false"

\* C18: a mutation one of whose requests met a transport fault ends with a
\* thrown error, never with the value returned for a missing thread.
C18_TransportFaultThrows ==
  (mutation.kind \in {"resolve", "reply"} /\ mutation.fault = "transport")
    => mutation.outcome = "thrown"

\* C19: a resolve or reply command calls the fetch of the stored pull
\* request exactly when its mutation succeeded; the fetch runs before the
\* command completes and its result replaces the collection.
C19_RefetchIffSucceeded ==
  mutation.kind # "none" =>
    /\ Succeeded(mutation.outcome) <=> fetchResult.status # "none"
    /\ ~Succeeded(mutation.outcome) => netLog = <<>>
    /\ (Succeeded(mutation.outcome) /\ pc = "idle") =>
         /\ fetchResult.status \in {"ok", "error"}
         /\ fetchPR = currentPRInfo
         /\ fetchResult.status = "ok" => getAllComments = SortComments(Result)

\* a reply was posted and the fetch that followed surfaced it
C19_Witness ==
  /\ mutation.kind = "reply"
  /\ mutation.outcome = "comment"
  /\ pc = "idle"
  /\ fetchResult.status = "ok"
  /\ \E i \in 1..Len(getAllComments) : getAllComments[i].id = Len(remoteComments)

\* C20: every step of resolveCommentThread and replyToComment leaves the
\* collection of the provider and currentPRInfo as they were.
C20_MutationLeavesCollection ==
  [][(mutation' # mutation /\ mutation'.kind # "none")
       => (comments' = comments /\ currentPRInfo' = currentPRInfo)]_vars

\* a thread was resolved while the provider still held its comments
C20_Witness ==
  /\ mutation.kind = "resolve"
  /\ mutation.outcome = "true"
  /\ pc = "gd_query"
  /\ \E i \in 1..Len(comments) : comments[i].threadId = mutation.threadId

C22_ReplyAfterLookup ==
  mutation.kind = "reply" =>
    /\ mutation.log \in {<<>>, <<"original">>, <<"original", "post">>}
    /\ (mutation.log # <<>> /\ pc # "rp_original" /\ TargetInNoThread) =>
         /\ mutation.outcome = "thrown"
         /\ mutation.log = <<"original">>

\* the lookup of a comment that the remote does not hold was answered 404
C22_Witness ==
  /\ mutation.kind = "reply"
  /\ TargetInNoThread
  /\ mutation.log = <<"original">>
  /\ mutation.outcome = "thrown"
  /\ mutation.fault = "http"

\* no item: findTreeItem returns undefined
NoItem == [id |-> NoComment, threadId |-> NoThread, contextValue |-> "none"]

\* CommentsProvider.findTreeItem
findTreeItem(comment) ==
  LET found == SelectSeq(treeItems, LAMBDA item : item.id = comment.id)
  IN  IF found = <<>> THEN NoItem ELSE found[1]

\* C27: for every comment of getAllComments(), findTreeItem returns an item
\* whose comment has the id of the comment, replies inside a thread of
\* several comments included.
C27_FindTreeItemFindsAll ==
  fetchResult.status = "ok" =>
    \A i \in 1..Len(getAllComments) :
      findTreeItem(getAllComments[i]).id = getAllComments[i].id

\* every item of the view, top-level items first, then the children of each
ViewItems ==
  treeItems \o Concat([i \in 1..Len(treeItems) |-> ChildrenOf(comments, treeItems[i])])

\* the number of items of the view that show the comment
Shows(id) == Cardinality({i \in 1..Len(ViewItems) : ViewItems[i].id = id})

\* C28: every comment of the collection is shown by exactly one item of the
\* view.  A thread with several comments is a group headed by its first
\* comment with its other comments as children; the comment of a thread of
\* one comment and a comment without thread are leaves.
C28_EveryCommentShownOnce ==
  fetchResult.status = "ok" =>
    \A i \in 1..Len(getAllComments) :
      LET c == getAllComments[i]
          members == getCommentsInThread(c.threadId)
          top == findTreeItem(c)
      IN  /\ Shows(c.id) = 1
          /\ (c.threadId = NoThread \/ Len(members) = 1) =>
               (top.id = c.id /\ top.contextValue = "prComment")
          /\ (c.threadId # NoThread /\ Len(members) > 1) =>
               \E h \in 1..Len(treeItems) :
                 /\ treeItems[h].contextValue = "prThreadHeader"
                 /\ treeItems[h].id = members[1].id
                 /\ \/ c.id = treeItems[h].id
                    \/ \E k \in 1..Len(ChildrenOf(comments, treeItems[h])) :
                         ChildrenOf(comments, treeItems[h])[k].id = c.id

\* the step hands the result of a fetch to refresh
RefreshStep == fetchResult.status = "pending" /\ fetchResult'.status = "ok"

\* the step is a clear of a provider that held comments or a PR info
ClearStep ==
  /\ comments # <<>> \/ prInfo # NoPR
  /\ comments' = <<>>
  /\ prInfo' = NoPR
  /\ UNCHANGED <<pc, fetchResult, netLog>>

\* C29: every step that replaces the collection, by refresh or by clear,
\* fires the change notification exactly once, and the notification is
\* fired by no other step.
C29_NotifiesOncePerReplacement ==
  [][/\ (RefreshStep \/ ClearStep) => fired' = 1
     /\ fired' # 0 =>
          \/ RefreshStep
          \/ (comments' = <<>> /\ prInfo' = NoPR /\ UNCHANGED <<pc, fetchResult, netLog>>)]_vars

\* clear has emptied a provider whose last refresh had built items
C29_Witness ==
  /\ comments = <<>>
  /\ prInfo = NoPR
  /\ treeItems # <<>>
  /\ fired = 1

\* C23: getCurrentPullRequest, once the query for the open pull requests of
\* the branch is answered, fails with NoPullRequestForBranch when there is
\* none, returns the number of the only one, and for several returns the
\* one that the user picks or fails with SelectionCancelled; a number that
\* it returns is one of the matches.
C23_ResolutionAmongMatches ==
  (cycle.answered /\ cycle.resolved # "none") =>
    /\ cycle.matches = OpenPullRequests(cycle.located.branch)
    /\ cycle.matches = {} => cycle.resolved = "NoPullRequestForBranch"
    /\ Cardinality(cycle.matches) = 1 =>
         (cycle.resolved = "ok" /\ cycle.matches = {cycle.number})
    /\ Cardinality(cycle.matches) > 1 =>
         cycle.resolved \in {"ok", "SelectionCancelled"}
    /\ cycle.resolved = "ok" => cycle.number \in cycle.matches
    /\ cycle.resolved # "ok" => cycle.number = NoPR

\* the user dismissed the pick among several open pull requests
C23_Witness ==
  /\ cycle.answered
  /\ Cardinality(cycle.matches) > 1
  /\ cycle.resolved = "SelectionCancelled"

\* C24: when a cycle has found no open pull request for the branch and has
\* ended without a number, currentPRInfo is unset.
C24_RefClearedWhenNoPR ==
  (/\ pc = "idle"
   /\ cycle.resolved = "NoPullRequestForBranch"
   /\ ~cycle.manual) => currentPRInfo = NoPR

\* C25: when the stored pull request was resolved from a branch and the
\* workspace is on a branch with exactly one open pull request, a refresh
\* of the stored pull request hands the view the comments of the pull
\* request of the branch the workspace is on.
C25_RefreshFollowsBranch ==
  [][(/\ RefreshStep
      /\ ~branchForce
      /\ cycle.resolved = "ok"
      /\ ~cycle.manual
      /\ cycle.number = currentPRInfo
      /\ workspace.head.named
      /\ Cardinality(workspace.head.prs) = 1) => fetchPR \in workspace.head.prs]_vars

\* C26: a cycle that finds no open pull request for the branch, or no
\* branch, shows no error notification.
C26_SilentOnExpectedAbsence ==
  (\/ cycle.resolved = "NoPullRequestForBranch"
   \/ cycle.located.err = "NoBranch") => cycle.shown = {}

\* C30: getRepositoryInfo returns an identity and a branch only when the
\* origin remote exists, its URL parses and HEAD is on a named branch; it
\* fails with NoRemote without an origin remote and with NoBranch on a
\* detached HEAD.
C30_LocateNeedsNamedBranch ==
  cycle.located.err # "notcalled" =>
    /\ cycle.located.err = "none" =>
         /\ workspace.origin
         /\ parseGitHubUrl(workspace.url).match
         /\ workspace.head.named
         /\ cycle.located.branch = workspace.head
    /\ (workspace.repository /\ ~workspace.origin) => cycle.located.err = "NoRemote"
    /\ (/\ workspace.repository
        /\ workspace.origin
        /\ parseGitHubUrl(workspace.url).match
        /\ ~workspace.head.named) => cycle.located.err = "NoBranch"

\* C31: a fetch one of whose page requests failed ends with an error,
\* never with a result: no result is built from a part of the pages.
C31_PageFailureFailsFetch ==
  pageFault => fetchResult.status \in {"pending", "error"}

\* C32: every comment of a fetch result carries as threadId the id of the
\* review thread that holds it on the remote, and none carries the
\* undefined threadId.
C32_ThreadIdFromMetadata ==
  fetchResult.status = "ok" =>
    \A k \in 1..Len(Result) :
      /\ Result[k].threadId # NoThread
      /\ \E i \in 1..Len(Listing) :
           Listing[i].id = Result[k].id /\ Listing[i].thread = Result[k].threadId

\* the thread that holds the comment of the given id on the remote
RemoteThreadOf(id) ==
  IF \E j \in 1..Len(remoteComments) : remoteComments[j].id = id
  THEN remoteComments[CHOOSE j \in 1..Len(remoteComments) : remoteComments[j].id = id].thread
  ELSE NoThread

\* a resolve command has completed after resolveCommentThread returned true
ResolveCompleted ==
  pc = "idle" /\ mutation.kind = "resolve" /\ mutation.outcome = "true"

\* C33: once a resolve command has completed after resolveCommentThread
\* returned true, the collection of the provider holds no comment of the
\* resolved thread.
C33_ResolvedThreadLeavesCollection ==
  ResolveCompleted =>
    \A i \in 1..Len(comments) : RemoteThreadOf(comments[i].id) # mutation.threadId

\* C35: whenever no command is in flight, the provider's prInfo is the
\* stored currentPRInfo and the collection it holds was fetched for that
\* pull request.
C35_ProviderMatchesStoredPR ==
  (pc = "idle" /\ overlap.pc = "idle") =>
    /\ prInfo = currentPRInfo
    /\ comments # <<>> => loadedPR = currentPRInfo

\* two cycles have overlapped and the fetch of each has returned
BothReturned ==
  /\ pc = "idle"
  /\ overlap.pc = "idle"
  /\ fetchResult.status = "ok"
  /\ overlap.result = "ok"

\* C34: once two overlapping cycles have both completed with a result, the
\* collection of the provider was fetched for the stored currentPRInfo and
\* the provider's prInfo names that pull request.
C34_OverlapEndsConsistent ==
  BothReturned => (loadedPR = currentPRInfo /\ prInfo = currentPRInfo)

\* the item that a search of the given items answers for the comment
FindItem(items, comment) ==
  LET found == SelectSeq(items, LAMBDA item : item.id = comment.id)
  IN  IF found = <<>> THEN NoItem ELSE found[1]

\* C36: in every state that a listener of the change event or a later
\* command sees, findTreeItem answers for the comments of the collection
\* from the items of that collection.
C36_ItemsOfHeldCollection ==
  (fired = 1 \/ pc = "idle") =>
    \A i \in 1..Len(comments) :
      findTreeItem(comments[i]) = FindItem(GetChildren(comments, prInfo), comments[i])

\* CommentsProvider.getParent over the given parent relationships: the id
\* of the parent item, NoComment when parentMap.get answers undefined
getParent(map, element) ==
  IF \E e \in map : e[1] = element.id
  THEN (CHOOSE e \in map : e[1] = element.id)[2]
  ELSE NoComment

\* the step is a call of clear: it fires the change event and hands no
\* fetch result to refresh
ClearCall == fired' = 1 /\ ~RefreshStep

\* C37: after clear() the collection is empty, the PR info is unset, and
\* findTreeItem and getParent answer nothing for every comment the provider
\* held.
C37_ClearLeavesNothing ==
  [][ClearCall =>
       /\ comments' = <<>>
       /\ prInfo' = NoPR
       /\ \A c \in Range(comments) :
            /\ FindItem(treeItems', c) = NoItem
            /\ getParent(parentMap', c) = NoComment]_vars

\* C38: after refresh, the comments of one thread are contiguous in
\* getAllComments(): between two comments of a thread lies no comment of
\* another thread and no comment without thread.  Stated for a remote all
\* of whose review comments have a path.
C38_ThreadsContiguous ==
  (fetchResult.status = "ok" /\ AllAnchored) =>
    \A i \in 1..Len(getAllComments), j \in 1..Len(getAllComments) :
      (/\ i < j
       /\ getAllComments[i].threadId # NoThread
       /\ getAllComments[i].threadId = getAllComments[j].threadId) =>
        \A k \in i..j : getAllComments[k].threadId = getAllComments[i].threadId

\* the active comment is a comment of the collection the provider holds
ActiveInCollection ==
  \E i \in 1..Len(comments) : comments[i].id = activeComment

\* C39: when no command is running, activeComment is undefined or a comment
\* of the collection the provider holds; after a resolve from the tree
\* view and the fetch that follows it, activeComment is not a comment of
\* the resolved thread.
C39_ActiveCommentInCollection ==
  pc = "idle" =>
    /\ activeComment = NoComment \/ ActiveInCollection
    /\ (ResolveCompleted /\ ~mutation.hover /\ fetchResult.status = "ok"
        /\ activeComment # NoComment) =>
          RemoteThreadOf(activeComment) # mutation.threadId

====
